---- MODULE Spec2Model ----
(***************************************************************************)
(* Model of src/algo.ts: the rsync-style delta core of unisync.            *)
(*                                                                         *)
(* One behaviour fixes an original buffer, a target buffer and a chunk     *)
(* size, and then runs the four exported functions on them in turn:        *)
(* divideToChunks, findDifferingChunks, generateInstructions and           *)
(* rebuildTargetFromOriginal.  The two sliding-window loops are modelled   *)
(* one iteration per step; the other functions are one step each.          *)
(***************************************************************************)
EXTENDS Integers, Sequences, FiniteSets, TLC

\* Bounds of the model.
MaxLen == 5
MaxChunkSize == 3

\* The byte values of the model's buffers.
Bytes == {0, 1}
Buffers == UNION {[1..n -> Bytes] : n \in 0..MaxLen}
ChunkSizes == (0 - 1)..MaxChunkSize

Ops == {"divideToChunks", "findDifferingChunks", "generateInstructions",
        "rebuildTargetFromOriginal"}

Min(a, b) == IF a < b THEN a ELSE b
Max(a, b) == IF a > b THEN a ELSE b

(***************************************************************************)
(* Library primitives the source calls.                                    *)
(***************************************************************************)

\* Buffer.prototype.subarray(start, end): negative offsets count from the
\* end, offsets are clamped to the buffer, an inverted range is empty.
ClampOffset(len, k) == IF k < 0 THEN Max(len + k, 0) ELSE Min(k, len)

subarray(buf, start, end) ==
  LET s == ClampOffset(Len(buf), start)
      e == ClampOffset(Len(buf), end)
  IN  IF e <= s THEN << >> ELSE SubSeq(buf, s + 1, e)

\* The value of an out-of-range array read. It is no Buffer: no byte is -1.
undefined == << 0 - 1 >>

\* Array read chunks[index], zero-based; undefined outside the array.
ArrayGetMissingAsEmpty(list, index) ==
  IF index + 1 \in DOMAIN list THEN list[index + 1] ELSE << >>

ArrayGet(list, index) ==
  IF index + 1 \in DOMAIN list THEN list[index + 1] ELSE undefined

\* Buffer.concat(list) throws a TypeError on an element that is no Buffer.
BufferConcatThrows(list) == \E k \in DOMAIN list : list[k] = undefined

RECURSIVE BufferConcat(_)
BufferConcat(list) ==
  IF list = << >> THEN << >> ELSE Head(list) \o BufferConcat(Tail(list))

\* adler32.buf(buffer): a = 1 + sum of bytes, b = sum of the running a's,
\* both modulo 65521, packed as (b << 16) | a in a signed 32-bit integer.
RECURSIVE AdlerLoop(_, _, _)
AdlerLoop(buffer, a, b) ==
  IF buffer = << >>
    THEN LET lo == a % 65521
             hi == b % 65521
         IN  (IF hi >= 32768 THEN hi - 65536 ELSE hi) * 65536 + lo
    ELSE LET a2 == a + Head(buffer)
         IN  AdlerLoop(Tail(buffer), a2, b + a2)

(***************************************************************************)
(* Functions of algo.ts.                                                   *)
(***************************************************************************)

\* The for loop of divideToChunks, from offset i on.
RECURSIVE DivideLoopOffByOne(_, _, _, _)
DivideLoopOffByOne(file, size, i, chunks) ==
  IF i < Len(file) - 1
    THEN DivideLoopOffByOne(file, size, i + size,
                            Append(chunks, subarray(file, i, i + size)))
    ELSE chunks

RECURSIVE DivideLoop(_, _, _, _)
DivideLoop(file, size, i, chunks) ==
  IF i < Len(file)
    THEN DivideLoop(file, size, i + size,
                    Append(chunks, subarray(file, i, i + size)))
    ELSE chunks

divideToChunks(file, size) == DivideLoop(file, size, 0, << >>)

\* The loop of divideToChunks ends iff i, advanced by size, reaches
\* file.length: always for an empty file, else only for a positive size.
DivideTerminates(file, size) == Len(file) = 0 \/ size >= 1

calculateWeakBlockChecksum(buffer) == AdlerLoop(buffer, 1, 0)

\* SHA-1 hex digest. No two buffers of the model's sizes collide under
\* SHA-1, so the digest is modelled as an injective tag of the content.
calculateStrongBlockChecksum(buffer) == << "sha1", buffer >>

\* checksumMap.set(weak, {index, strong}): a later entry replaces an earlier
\* one under the same key.
MapSetKeepFirst(map, key, entry) ==
  [k \in DOMAIN map \cup {key} |-> IF k \in DOMAIN map THEN map[k] ELSE entry]

MapSet(map, key, entry) ==
  [k \in DOMAIN map \cup {key} |-> IF k = key THEN entry ELSE map[k]]

\* originalChunks.forEach((chunk, index) => checksumMap.set(...)), from the
\* chunk at zero-based position index on.
RECURSIVE BuildChecksumMapOneBased(_, _, _)
BuildChecksumMapOneBased(chunks, index, map) ==
  IF index >= Len(chunks)
    THEN map
    ELSE LET chunk == chunks[index + 1]
         IN  BuildChecksumMapOneBased(chunks, index + 1,
               MapSet(map, calculateWeakBlockChecksum(chunk),
                      [index |-> index + 1,
                       strong |-> calculateStrongBlockChecksum(chunk)]))

RECURSIVE BuildChecksumMap(_, _, _)
BuildChecksumMap(chunks, index, map) ==
  IF index >= Len(chunks)
    THEN map
    ELSE LET chunk == chunks[index + 1]
         IN  BuildChecksumMap(chunks, index + 1,
               MapSet(map, calculateWeakBlockChecksum(chunk),
                      [index |-> index,
                       strong |-> calculateStrongBlockChecksum(chunk)]))

EmptyMap == [k \in {} |-> 0]

\* if (checksumMap.has(weak)) { if (originalChecksum.strong === strong) ...
ChunkMatchesWeakOnly(map, window) ==
  calculateWeakBlockChecksum(window) \in DOMAIN map

ChunkMatches(map, window) ==
  LET weak == calculateWeakBlockChecksum(window)
  IN  /\ weak \in DOMAIN map
      /\ map[weak].strong = calculateStrongBlockChecksum(window)

\* The two kinds of instruction: a number (chunk index) or a Buffer.
CopyRef(index) == [type |-> "number", index |-> index, bytes |-> << >>]
Literal(bytes) == [type |-> "Buffer", index |-> 0, bytes |-> bytes]

\* if (differingBuffer.length > 0) instructions.push(Buffer.concat(...))
FlushAlways(instrs, pending) == Append(instrs, Literal(BufferConcat(pending)))

FlushDiffering(instrs, pending) ==
  IF Len(pending) > 0
    THEN Append(instrs, Literal(BufferConcat(pending)))
    ELSE instrs

\* targetPosition += chunkSizeBytes on a match (a whole-chunk jump).
MatchAdvanceByOne(position, size) == position + 1

MatchAdvance(position, size) == position + size

\* The loop guards of the two scans.
FindLoopGuardAsGenerate(position, target, size) == position < Len(target)

FindLoopGuard(position, target, size) == position <= Len(target) - size

GenLoopGuard(position, target, size) == position < Len(target)

WindowFits(position, target, size) == position <= Len(target) - size

\* instructions.forEach: a number pushes originalChunks[instruction], a
\* Buffer pushes itself.
RebuiltChunks(chunks, instrs) ==
  [k \in DOMAIN instrs |->
     IF instrs[k].type = "number"
       THEN ArrayGet(chunks, instrs[k].index)
       ELSE instrs[k].bytes]

(***************************************************************************)
(* State.                                                                  *)
(***************************************************************************)
VARIABLES
  originalData,     \* argument: the original buffer
  targetData,       \* argument: the target buffer
  chunkSizeBytes,   \* argument: the chunk size
  pc,               \* where the run is
  status,           \* per function: pending, returned, threw or hang
  chunksResult,     \* what divideToChunks returned
  checksumMap,      \* local of the running scan
  targetPosition,   \* local of the running scan
  windowBuffer,     \* local of findDifferingChunks
  differingChunks,  \* local and result of findDifferingChunks
  differingBuffer,  \* local of generateInstructions
  instructions,     \* local and result of generateInstructions
  findTrace,        \* history: the iterations of findDifferingChunks
  genTrace,         \* history: the iterations of generateInstructions
  rebuildInput,     \* argument: the instructions given to rebuild
  rebuilt           \* what rebuildTargetFromOriginal returned

vars == << originalData, targetData, chunkSizeBytes, pc, status, chunksResult,
           checksumMap, targetPosition, windowBuffer, differingChunks,
           differingBuffer, instructions, findTrace, genTrace, rebuildInput,
           rebuilt >>

args == << originalData, targetData, chunkSizeBytes >>

Init ==
  /\ originalData \in Buffers
  /\ targetData \in Buffers
  /\ chunkSizeBytes \in ChunkSizes
  /\ pc = "divideToChunks"
  /\ status = [op \in Ops |-> "pending"]
  /\ chunksResult = << >>
  /\ checksumMap = EmptyMap
  /\ targetPosition = 0
  /\ windowBuffer = << >>
  /\ differingChunks = << >>
  /\ differingBuffer = << >>
  /\ instructions = << >>
  /\ findTrace = << >>
  /\ genTrace = << >>
  /\ rebuildInput = << >>
  /\ rebuilt = undefined

\* One iteration of a scan, as recorded in the histories.
Visit(position, window, matched, index) ==
  [pos |-> position, window |-> window, matched |-> matched, index |-> index]

(***************************************************************************)
(* divideToChunks(originalData, chunkSizeBytes)                            *)
(***************************************************************************)
DivideToChunksReturn ==
  /\ pc = "divideToChunks"
  /\ DivideTerminates(originalData, chunkSizeBytes)
  /\ chunksResult' = divideToChunks(originalData, chunkSizeBytes)
  /\ status' = [status EXCEPT !["divideToChunks"] = "returned"]
  /\ pc' = "findDifferingChunks"
  /\ UNCHANGED << args, checksumMap, targetPosition, windowBuffer,
                  differingChunks, differingBuffer, instructions, findTrace,
                  genTrace, rebuildInput, rebuilt >>

\* The loop never ends: the call neither returns nor throws.
DivideToChunksHang ==
  /\ pc = "divideToChunks"
  /\ ~DivideTerminates(originalData, chunkSizeBytes)
  /\ status' = [status EXCEPT !["divideToChunks"] = "hang"]
  /\ pc' = "hang"
  /\ UNCHANGED << args, chunksResult, checksumMap, targetPosition,
                  windowBuffer, differingChunks, differingBuffer, instructions,
                  findTrace, genTrace, rebuildInput, rebuilt >>

(***************************************************************************)
(* findDifferingChunks(originalData, targetData, chunkSizeBytes)           *)
(***************************************************************************)
FindDifferingChunksEnter ==
  /\ pc = "findDifferingChunks"
  /\ checksumMap' = BuildChecksumMap(
                      divideToChunks(originalData, chunkSizeBytes), 0, EmptyMap)
  /\ differingChunks' = << >>
  /\ targetPosition' = 0
  /\ windowBuffer' = subarray(targetData, 0, chunkSizeBytes)
  /\ pc' = "findLoop"
  /\ UNCHANGED << args, status, chunksResult, differingBuffer, instructions,
                  findTrace, genTrace, rebuildInput, rebuilt >>

FindDifferingChunksLoop ==
  /\ pc = "findLoop"
  /\ FindLoopGuard(targetPosition, targetData, chunkSizeBytes)
  /\ IF ChunkMatches(checksumMap, windowBuffer)
       THEN /\ targetPosition' = MatchAdvance(targetPosition, chunkSizeBytes)
            /\ UNCHANGED differingChunks
            /\ findTrace' = Append(findTrace,
                 Visit(targetPosition, windowBuffer, TRUE,
                       checksumMap[calculateWeakBlockChecksum(windowBuffer)].index))
       ELSE /\ differingChunks' =
                 Append(differingChunks, subarray(windowBuffer, 0, chunkSizeBytes))
            /\ targetPosition' = targetPosition + 1
            /\ findTrace' = Append(findTrace,
                 Visit(targetPosition, windowBuffer, FALSE, 0))
  /\ windowBuffer' = subarray(targetData, targetPosition',
                              targetPosition' + chunkSizeBytes)
  /\ UNCHANGED << args, pc, status, chunksResult, checksumMap, differingBuffer,
                  instructions, genTrace, rebuildInput, rebuilt >>

FindDifferingChunksReturn ==
  /\ pc = "findLoop"
  /\ ~FindLoopGuard(targetPosition, targetData, chunkSizeBytes)
  /\ status' = [status EXCEPT !["findDifferingChunks"] = "returned"]
  /\ pc' = "generateInstructions"
  /\ UNCHANGED << args, chunksResult, checksumMap, targetPosition, windowBuffer,
                  differingChunks, differingBuffer, instructions, findTrace,
                  genTrace, rebuildInput, rebuilt >>

(***************************************************************************)
(* generateInstructions(originalData, targetData, chunkSizeBytes)          *)
(***************************************************************************)
GenerateInstructionsEnter ==
  /\ pc = "generateInstructions"
  /\ checksumMap' = BuildChecksumMap(
                      divideToChunks(originalData, chunkSizeBytes), 0, EmptyMap)
  /\ instructions' = << >>
  /\ targetPosition' = 0
  /\ differingBuffer' = << >>
  /\ windowBuffer' = << >>
  /\ pc' = "genLoop"
  /\ UNCHANGED << args, status, chunksResult, differingChunks, findTrace,
                  genTrace, rebuildInput, rebuilt >>

GenerateInstructionsLoop ==
  /\ pc = "genLoop"
  /\ GenLoopGuard(targetPosition, targetData, chunkSizeBytes)
  /\ LET window == subarray(targetData, targetPosition,
                            targetPosition + chunkSizeBytes)
         fits == WindowFits(targetPosition, targetData, chunkSizeBytes)
     IN  IF fits /\ ChunkMatches(checksumMap, window)
           THEN LET index == checksumMap[calculateWeakBlockChecksum(window)].index
                IN  /\ instructions' =
                         Append(FlushDiffering(instructions, differingBuffer),
                                CopyRef(index))
                    /\ differingBuffer' =
                         IF Len(differingBuffer) > 0 THEN << >> ELSE differingBuffer
                    /\ targetPosition' = MatchAdvance(targetPosition, chunkSizeBytes)
                    /\ genTrace' = Append(genTrace,
                         Visit(targetPosition, window, TRUE, index))
           ELSE /\ differingBuffer' =
                     Append(differingBuffer,
                            subarray(targetData, targetPosition, targetPosition + 1))
                /\ targetPosition' = targetPosition + 1
                /\ UNCHANGED instructions
                /\ genTrace' = Append(genTrace,
                     Visit(targetPosition, IF fits THEN window ELSE << >>, FALSE, 0))
  /\ UNCHANGED << args, pc, status, chunksResult, checksumMap, windowBuffer,
                  differingChunks, findTrace, rebuildInput, rebuilt >>

GenerateInstructionsReturn ==
  /\ pc = "genLoop"
  /\ ~GenLoopGuard(targetPosition, targetData, chunkSizeBytes)
  /\ instructions' = FlushDiffering(instructions, differingBuffer)
  /\ status' = [status EXCEPT !["generateInstructions"] = "returned"]
  /\ pc' = "rebuildTargetFromOriginal"
  /\ UNCHANGED << args, chunksResult, checksumMap, targetPosition, windowBuffer,
                  differingChunks, differingBuffer, findTrace, genTrace,
                  rebuildInput, rebuilt >>

(***************************************************************************)
(* rebuildTargetFromOriginal(originalData, ins, chunkSizeBytes)            *)
(***************************************************************************)
\* The instruction sequences rebuild is given: the generated one, or the
\* generated one with a reference past the original's chunk table put in
\* front of it or behind it.
RebuildInputs ==
  LET n == Len(divideToChunks(originalData, chunkSizeBytes))
  IN  {instructions}
        \cup {<< CopyRef(k) >> \o instructions : k \in {n, n + 1}}
        \cup {Append(instructions, CopyRef(k)) : k \in {n, n + 1}}

RebuildTargetFromOriginal ==
  /\ pc = "rebuildTargetFromOriginal"
  /\ \E ins \in RebuildInputs :
       LET originalChunks == divideToChunks(originalData, chunkSizeBytes)
           rebuiltChunks == RebuiltChunks(originalChunks, ins)
       IN  /\ rebuildInput' = ins
           /\ IF BufferConcatThrows(rebuiltChunks)
                THEN /\ status' = [status EXCEPT
                                     !["rebuildTargetFromOriginal"] = "threw"]
                     /\ UNCHANGED rebuilt
                ELSE /\ status' = [status EXCEPT
                                     !["rebuildTargetFromOriginal"] = "returned"]
                     /\ rebuilt' = BufferConcat(rebuiltChunks)
  /\ pc' = "done"
  /\ UNCHANGED << args, chunksResult, checksumMap, targetPosition, windowBuffer,
                  differingChunks, differingBuffer, instructions, findTrace,
                  genTrace >>

Next ==
  \/ DivideToChunksReturn
  \/ DivideToChunksHang
  \/ FindDifferingChunksEnter
  \/ FindDifferingChunksLoop
  \/ FindDifferingChunksReturn
  \/ GenerateInstructionsEnter
  \/ GenerateInstructionsLoop
  \/ GenerateInstructionsReturn
  \/ RebuildTargetFromOriginal

Spec == Init /\ [][Next]_vars

TypeOK ==
  /\ originalData \in Buffers
  /\ targetData \in Buffers
  /\ chunkSizeBytes \in ChunkSizes
  /\ status \in [Ops -> {"pending", "returned", "threw", "hang"}]

(***************************************************************************)
(* Vocabulary of the properties.                                           *)
(***************************************************************************)
Returned(op) == status[op] = "returned"

OriginalChunks == divideToChunks(originalData, chunkSizeBytes)

\* Two chunks of the original with different content and one weak checksum.
WeakCollision ==
  \E i, j \in DOMAIN OriginalChunks :
    /\ OriginalChunks[i] # OriginalChunks[j]
    /\ calculateWeakBlockChecksum(OriginalChunks[i])
         = calculateWeakBlockChecksum(OriginalChunks[j])

\* No two chunks of the original, equal or not, share a weak checksum.
WeakChecksumsDistinct ==
  \A i, j \in DOMAIN OriginalChunks :
    i # j => calculateWeakBlockChecksum(OriginalChunks[i])
               # calculateWeakBlockChecksum(OriginalChunks[j])

ShortLastChunk ==
  /\ OriginalChunks # << >>
  /\ Len(OriginalChunks[Len(OriginalChunks)]) < chunkSizeBytes

IsCopyRef(instruction) == instruction.type = "number"
IsLiteral(instruction) == instruction.type = "Buffer"

CeilDiv(a, b) == (a + b - 1) \div b

SetMax(S) == CHOOSE x \in S : \A y \in S : y <= x

(***************************************************************************)
(* C1                                                                      *)
(***************************************************************************)
\* C1: for every original, every target and every chunkSizeBytes >= 1,
\* rebuilding from the original and the generated instructions returns the
\* target byte for byte.
C1_RoundTrip ==
  (pc = "done" /\ chunkSizeBytes >= 1 /\ rebuildInput = instructions)
    => /\ Returned("rebuildTargetFromOriginal")
       /\ rebuilt = targetData

\* A round trip over an original whose short last chunk shares its weak
\* checksum with a different chunk, where the scan had a weak hit.
C1_Witness ==
  /\ pc = "done"
  /\ chunkSizeBytes >= 1
  /\ rebuildInput = instructions
  /\ rebuilt = targetData
  /\ WeakCollision
  /\ ShortLastChunk
  /\ \E k \in DOMAIN genTrace :
       /\ Len(genTrace[k].window) = chunkSizeBytes
       /\ ChunkMatchesWeakOnly(checksumMap, genTrace[k].window)

(***************************************************************************)
(* C2                                                                      *)
(***************************************************************************)
IdentityInstructions == [k \in 1..Len(OriginalChunks) |-> CopyRef(k - 1)]

C3_Original ==
  (Returned("findDifferingChunks") /\ originalData = targetData
     /\ 1 <= chunkSizeBytes /\ chunkSizeBytes <= Len(originalData))
    => differingChunks = << >>

\* C3 amended: for every buffer b and chunkSizeBytes >= 1,
\* findDifferingChunks(b, b, chunkSizeBytes) is empty exactly when no two
\* chunks of b with different content share a weak checksum.
C3_IdentityDiff ==
  (Returned("findDifferingChunks") /\ originalData = targetData
     /\ chunkSizeBytes >= 1)
    => (differingChunks = << >> <=> ~WeakCollision)

\* An identity diff over several chunks, two of them equal, that is empty.
C3_Witness ==
  /\ Returned("findDifferingChunks")
  /\ originalData = targetData
  /\ chunkSizeBytes >= 2
  /\ Len(OriginalChunks) >= 2
  /\ OriginalChunks[1] = OriginalChunks[2]
  /\ Len(findTrace) >= 2
  /\ differingChunks = << >>

(***************************************************************************)
(* C4                                                                      *)
(***************************************************************************)
\* C4: called with chunkSizeBytes <= 0, every public operation ends with an
\* error: it neither returns a result nor loops forever.
C4_InvalidConfigRejected ==
  chunkSizeBytes <= 0 => \A op \in Ops : status[op] \in {"pending", "threw"}

(***************************************************************************)
(* C5                                                                      *)
(***************************************************************************)
\* C5: for a buffer of length L and a chunk size C >= 1, divideToChunks
\* returns ceil(L/C) chunks, each of size C except possibly the last, of
\* size L mod C (C when L is a multiple of C), and the chunks concatenated
\* in order are the buffer.
C5_Chunking ==
  (Returned("divideToChunks") /\ chunkSizeBytes >= 1)
    => LET L == Len(originalData)
           C == chunkSizeBytes
           n == Len(chunksResult)
       IN  /\ n = CeilDiv(L, C)
           /\ \A k \in 1..(n - 1) : Len(chunksResult[k]) = C
           /\ n > 0 => Len(chunksResult[n]) = (IF L % C = 0 THEN C ELSE L % C)
           /\ BufferConcat(chunksResult) = originalData

C5_Witness ==
  /\ Returned("divideToChunks")
  /\ chunkSizeBytes >= 2
  /\ Len(originalData) > chunkSizeBytes
  /\ Len(originalData) % chunkSizeBytes # 0
  /\ Len(chunksResult) >= 2

(***************************************************************************)
(* C6                                                                      *)
(***************************************************************************)
CorruptReference ==
  \E k \in DOMAIN rebuildInput :
    /\ IsCopyRef(rebuildInput[k])
    /\ rebuildInput[k].index >= Len(OriginalChunks)

\* C6: given instructions with a CopyRef whose index is outside the
\* original's chunk table, rebuildTargetFromOriginal throws and returns no
\* buffer.
C6_CorruptReferenceThrows ==
  (pc = "done" /\ CorruptReference)
    => /\ status["rebuildTargetFromOriginal"] = "threw"
       /\ rebuilt = undefined

C6_Witness ==
  /\ pc = "done"
  /\ CorruptReference
  /\ Len(rebuildInput) >= 3
  /\ Len(OriginalChunks) >= 2
  /\ status["rebuildTargetFromOriginal"] = "threw"

(***************************************************************************)
(* C7                                                                      *)
(***************************************************************************)
TargetPositions == 0..(Len(targetData) - 1)

\* The target bytes covered by a window the scan matched.
MatchStarts == {genTrace[k].pos : k \in {j \in DOMAIN genTrace : genTrace[j].matched}}

MatchedPositions ==
  {p \in TargetPositions :
     \E m \in MatchStarts : m <= p /\ p < m + chunkSizeBytes}

UnmatchedPositions == TargetPositions \ MatchedPositions

\* The maximal runs of unmatched target bytes, each named by its first byte.
RunStarts == {p \in UnmatchedPositions : (p - 1) \notin UnmatchedPositions}

RunEnd(s) ==
  CHOOSE q \in UnmatchedPositions :
    /\ q >= s
    /\ (q + 1) \notin UnmatchedPositions
    /\ \A r \in s..q : r \in UnmatchedPositions

RunBytes(s) == SubSeq(targetData, s + 1, RunEnd(s) + 1)

MatchIndexAt(m) ==
  genTrace[CHOOSE k \in DOMAIN genTrace :
             genTrace[k].matched /\ genTrace[k].pos = m].index

\* The instructions the scan's decisions call for: one CopyRef per match and
\* one Literal per maximal unmatched run, in target order.
ExpectedInstructions ==
  LET starts == MatchStarts \cup RunStarts
      nth(k) == CHOOSE x \in starts : Cardinality({y \in starts : y < x}) = k - 1
  IN  [k \in 1..Cardinality(starts) |->
         IF nth(k) \in MatchStarts
           THEN CopyRef(MatchIndexAt(nth(k)))
           ELSE Literal(RunBytes(nth(k)))]

\* C7: in the instructions generateInstructions returns, no two Literals are
\* adjacent, no Literal is empty, and each Literal is exactly one maximal run
\* of target bytes the scan did not match, trailing bytes included.
C7_LiteralCoalescing ==
  (Returned("generateInstructions") /\ chunkSizeBytes >= 1)
    => /\ \A k \in 1..(Len(instructions) - 1) :
            ~(IsLiteral(instructions[k]) /\ IsLiteral(instructions[k + 1]))
       /\ \A k \in DOMAIN instructions :
            IsLiteral(instructions[k]) => instructions[k].bytes # << >>
       /\ instructions = ExpectedInstructions

\* A run of two unmatched bytes, a match, and a trailing byte too short for
\* a window.
C7_Witness ==
  /\ Returned("generateInstructions")
  /\ chunkSizeBytes >= 2
  /\ Len(instructions) = 3
  /\ IsLiteral(instructions[1])
  /\ Len(instructions[1].bytes) >= 2
  /\ IsCopyRef(instructions[2])
  /\ IsLiteral(instructions[3])
  /\ Len(instructions[3].bytes) < chunkSizeBytes

(***************************************************************************)
(* C8                                                                      *)
(***************************************************************************)
\* calculatePatchSize of the test: 2 per index, its length per Buffer.
RECURSIVE calculatePatchSize(_)
calculatePatchSize(instrs) ==
  IF instrs = << >>
    THEN 0
    ELSE (IF IsCopyRef(Head(instrs)) THEN 2 ELSE Len(Head(instrs).bytes))
           + calculatePatchSize(Tail(instrs))

NumCopyRefs == Cardinality({k \in DOMAIN instructions : IsCopyRef(instructions[k])})

\* The target is the original with one byte replaced, in a buffer of at
\* least four bytes.
SmallEdit ==
  /\ Len(originalData) = Len(targetData)
  /\ Len(originalData) >= 4
  /\ Cardinality({p \in DOMAIN originalData : originalData[p] # targetData[p]}) = 1

\* C8 as stated: for a target that differs from the original in one small
\* region, and any chunkSizeBytes >= 1, the patch size is strictly smaller
\* than target.length.
C8_Original ==
  (Returned("generateInstructions") /\ chunkSizeBytes >= 1 /\ SmallEdit)
    => calculatePatchSize(instructions) < Len(targetData)

\* C8 amended: the patch size is target.length minus (chunkSizeBytes - 2)
\* per CopyRef, so it is strictly smaller than target.length exactly when
\* chunkSizeBytes >= 3 and at least one window matched.
C8_PatchSize ==
  (Returned("generateInstructions") /\ chunkSizeBytes >= 1)
    => /\ calculatePatchSize(instructions)
            = Len(targetData) - (chunkSizeBytes - 2) * NumCopyRefs
       /\ calculatePatchSize(instructions) < Len(targetData)
            <=> (chunkSizeBytes >= 3 /\ NumCopyRefs >= 1)

C8_Witness ==
  /\ Returned("generateInstructions")
  /\ chunkSizeBytes >= 3
  /\ SmallEdit
  /\ NumCopyRefs >= 1
  /\ calculatePatchSize(instructions) < Len(targetData)

(***************************************************************************)
(* C9                                                                      *)
(***************************************************************************)
\* The original chunks, by zero-based index, whose weak checksum is window's.
WeakCandidates(window) ==
  {i \in 0..(Len(OriginalChunks) - 1) :
     calculateWeakBlockChecksum(OriginalChunks[i + 1])
       = calculateWeakBlockChecksum(window)}

CurrentWindow ==
  SubSeq(targetData, targetPosition + 1, targetPosition + chunkSizeBytes)

\* C9: at a position where a full window fits, the scan emits CopyRef(i) and
\* jumps by chunkSizeBytes iff i is the greatest index of an original chunk
\* with the window's weak checksum and that chunk equals the window;
\* otherwise it takes one literal byte and advances by 1.
C9_MatchRule ==
  [][(/\ pc = "genLoop"
      /\ genTrace' # genTrace
      /\ chunkSizeBytes >= 1
      /\ targetPosition + chunkSizeBytes <= Len(targetData))
       => LET cands == WeakCandidates(CurrentWindow)
          IN  IF cands # {} /\ OriginalChunks[SetMax(cands) + 1] = CurrentWindow
                THEN /\ Len(instructions') > Len(instructions)
                     /\ instructions'[Len(instructions')] = CopyRef(SetMax(cands))
                     /\ targetPosition' = targetPosition + chunkSizeBytes
                ELSE /\ instructions' = instructions
                     /\ differingBuffer' =
                          Append(differingBuffer, << targetData[targetPosition + 1] >>)
                     /\ targetPosition' = targetPosition + 1]_vars

\* The scan passed over a window equal to an original chunk whose index entry
\* a later chunk with the same weak checksum and other content had replaced.
C9_Witness ==
  /\ chunkSizeBytes >= 1
  /\ \E k \in DOMAIN genTrace :
       /\ ~genTrace[k].matched
       /\ Len(genTrace[k].window) = chunkSizeBytes
       /\ \E i \in WeakCandidates(genTrace[k].window) :
            /\ OriginalChunks[i + 1] = genTrace[k].window
            /\ i < SetMax(WeakCandidates(genTrace[k].window))

(***************************************************************************)
(* C10                                                                     *)
(***************************************************************************)
\* The iterations of generateInstructions at which a full window fits.
FullWindowVisits ==
  LET fits(v) == v.pos <= Len(targetData) - chunkSizeBytes
  IN  SelectSeq(genTrace, fits)

Decisions(trace) ==
  [k \in DOMAIN trace |-> << trace[k].pos, trace[k].matched, trace[k].index >>]

LiteralWindows ==
  LET unmatched(v) == ~v.matched
      visits == SelectSeq(FullWindowVisits, unmatched)
  IN  [k \in DOMAIN visits |->
         SubSeq(targetData, visits[k].pos + 1, visits[k].pos + chunkSizeBytes)]

\* C10: for chunkSizeBytes >= 1 the two scans visit the same positions and
\* decide alike wherever a full window fits, and findDifferingChunks returns,
\* in order, the full window at each such position generateInstructions took
\* as a literal byte.
C10_SameScan ==
  (Returned("generateInstructions") /\ chunkSizeBytes >= 1)
    => /\ Decisions(findTrace) = Decisions(FullWindowVisits)
       /\ differingChunks = LiteralWindows
       /\ \A k \in DOMAIN differingChunks : Len(differingChunks[k]) = chunkSizeBytes

\* Both scans ran over a target with matched windows, literal windows and a
\* trailing partial window only generateInstructions visits.
C10_Witness ==
  /\ Returned("generateInstructions")
  /\ chunkSizeBytes >= 2
  /\ Len(differingChunks) >= 2
  /\ NumCopyRefs >= 1
  /\ Len(genTrace) > Len(findTrace)
====
